---------------------------- MODULE Spec2Model ----------------------------
(***************************************************************************)
(* Model of network_importer: the DiffSync entity models (models.py), the  *)
(* backend resolution of the settings (config.py) and the adapter          *)
(* container used by the unit-test fixtures (tests/unit/conftest.py).      *)
(***************************************************************************)
EXTENDS Integers, Sequences, FiniteSets, TLC

(***************************************************************************)
(* Bounds of the model.                                                    *)
(***************************************************************************)
\* characters of the alphabet the modelled strings are written in
NumChars == 2
\* longest modelled string
MaxLen == 1
\* largest modelled VLAN id
MaxVid == 2
\* device names a Vlan is associated with
NumDevices == 3
\* longest associated_devices list a Vlan is constructed with
MaxInit == 2
\* distinct device names passed to add_device on one Vlan
MaxAdds == 3
\* worker tasks populating one graph
NumWorkers == 2
\* add_device calls of one worker
MaxCalls == 2
\* site, device and interface names of the entities put in a graph
NumNames == 2
\* entities one graph container holds
MaxStore == 2
\* remote identifiers the remote system assigns
MaxRemoteId == 2

(***************************************************************************)
(* Python values.  A str is the sequence of its code points, so that the   *)
(* ordering of str is the lexicographic one Python computes.               *)
(***************************************************************************)
Chars == 1..NumChars

RECURSIVE StrsOfLen(_)
StrsOfLen(n) ==
    IF n = 0 THEN {<< >>}
    ELSE {<<c>> \o s : c \in Chars, s \in StrsOfLen(n - 1)}

Strs(maxlen) == UNION {StrsOfLen(n) : n \in 0..maxlen}

\* a keyword argument that is not passed at all
Missing == [k |-> "missing", s |-> << >>]
\* Python's None
None == [k |-> "none", s |-> << >>]
\* a str object
Str(s) == [k |-> "str", s |-> s]
\* an int object
IntV(n) == [k |-> "int", s |-> <<n>>]

\* Python truthiness: `not v` is True for None, "" and 0
Falsy(v) ==
    \/ v.k = "none"
    \/ v.k = "str" /\ v.s = << >>
    \/ v.k = "int" /\ v.s = <<0>>

\* s < t on str: code point by code point, a proper prefix is smaller
RECURSIVE StrLess(_, _)
StrLess(s, t) ==
    IF t = << >> THEN FALSE
    ELSE IF s = << >> THEN TRUE
    ELSE IF Head(s) # Head(t) THEN Head(s) < Head(t)
    ELSE StrLess(Tail(s), Tail(t))

\* v < w on the str objects v and w
Less(v, w) == StrLess(v.s, w.s)

\* insertion of v into the sorted list l, after the elements that are not greater
RECURSIVE Insert(_, _)
Insert(l, v) ==
    IF l = << >> THEN <<v>>
    ELSE IF Less(v, Head(l)) THEN <<v>> \o l
    ELSE <<Head(l)>> \o Insert(Tail(l), v)

\* the builtin sorted(l): a new list, ascending, stable
RECURSIVE Sorted(_)
Sorted(l) ==
    IF l = << >> THEN << >>
    ELSE Insert(Sorted(SubSeq(l, 1, Len(l) - 1)), l[Len(l)])


(***************************************************************************)
(* The entity models of models.py.  Every model declares _modelname,       *)
(* _identifiers and annotated fields; DiffSyncModel (a pydantic model)     *)
(* validates the keyword arguments against the annotations.                *)
(***************************************************************************)
ModelNames == {"site", "device", "interface", "ip_address", "prefix", "cable", "vlan"}

\* _identifiers of each model, in the declared order
Identifiers(t) ==
    CASE t = "site" -> <<"name">>
      [] t = "device" -> <<"name">>
      [] t = "interface" -> <<"device_name", "name">>
      [] t = "ip_address" -> <<"device_name", "interface_name", "address">>
      [] t = "prefix" -> <<"site_name", "prefix">>
      [] t = "cable" -> <<"device_a_name", "interface_a_name", "device_z_name", "interface_z_name">>
      [] t = "vlan" -> <<"site_name", "vid">>

IdentifierSet(t) == {Identifiers(t)[i] : i \in 1..Len(Identifiers(t))}

\* the annotation of an identifier field: its type and whether it is
\* Optional[...] = None
Annotation(t, f) ==
    CASE t = "prefix" /\ f = "site_name" -> [optional |-> TRUE, typ |-> "str"]
      [] t = "vlan" /\ f = "vid" -> [optional |-> FALSE, typ |-> "int"]
      [] OTHER -> [optional |-> FALSE, typ |-> "str"]

\* the value pydantic stores for field f given the keyword argument v, or
\* Missing when it rejects v
FieldValue(t, f, v) ==
    LET a == Annotation(t, f) IN
    IF a.optional /\ v.k \in {"missing", "none"} THEN None
    ELSE IF v.k = a.typ THEN v
    ELSE Missing

\* DiffSyncModel.__init__(**kw): the validated entity, or a ValidationError
ModelInit(t, kw, compared) ==
    LET ids == [f \in IdentifierSet(t) |-> FieldValue(t, f, kw[f])] IN
    IF \E f \in IdentifierSet(t) : ids[f] = Missing
    THEN [compared |-> compared, ids |-> << >>, status |-> "ValidationError", type |-> t]
    ELSE [compared |-> compared, ids |-> ids, status |-> "ok", type |-> t]

Raised(err, t) == [compared |-> FALSE, ids |-> << >>, status |-> err, type |-> t]

\* Cable.__init__ without the check that both device names are non-empty
CableInitNoEmptyCheck(kwargs) ==
    IF kwargs["device_a_name"] = Missing \/ kwargs["device_z_name"] = Missing
    THEN Raised("ValueError", "cable")
    ELSE IF \E key \in IdentifierSet("cable") : kwargs[key] = Missing
    THEN Raised("KeyError", "cable")
    ELSE
      LET devices == <<kwargs["device_a_name"], kwargs["device_z_name"]>>
          ids == IF Sorted(devices) # devices
                 THEN [device_a_name |-> kwargs["device_z_name"],
                       device_z_name |-> kwargs["device_a_name"],
                       interface_a_name |-> kwargs["interface_z_name"],
                       interface_z_name |-> kwargs["interface_a_name"]]
                 ELSE [key \in IdentifierSet("cable") |-> kwargs[key]]
      IN ModelInit("cable", ids, TRUE)

\* Cable.__init__ that exchanges the device names and leaves each interface
\* name on its side
CableInitSwapDevicesOnly(kwargs) ==
    IF kwargs["device_a_name"] = Missing \/ kwargs["device_z_name"] = Missing
    THEN Raised("ValueError", "cable")
    ELSE IF Falsy(kwargs["device_a_name"]) \/ Falsy(kwargs["device_z_name"])
    THEN Raised("ValueError", "cable")
    ELSE IF \E key \in IdentifierSet("cable") : kwargs[key] = Missing
    THEN Raised("KeyError", "cable")
    ELSE
      LET devices == <<kwargs["device_a_name"], kwargs["device_z_name"]>>
          ids == IF Sorted(devices) # devices
                 THEN [device_a_name |-> kwargs["device_z_name"],
                       device_z_name |-> kwargs["device_a_name"],
                       interface_a_name |-> kwargs["interface_a_name"],
                       interface_z_name |-> kwargs["interface_z_name"]]
                 ELSE [key \in IdentifierSet("cable") |-> kwargs[key]]
      IN ModelInit("cable", ids, TRUE)

\* Cable.__init__(**kwargs)
CableInit(kwargs) ==
    IF kwargs["device_a_name"] = Missing \/ kwargs["device_z_name"] = Missing
    THEN Raised("ValueError", "cable")
    ELSE IF Falsy(kwargs["device_a_name"]) \/ Falsy(kwargs["device_z_name"])
    THEN Raised("ValueError", "cable")
    ELSE IF \E key \in IdentifierSet("cable") : kwargs[key] = Missing
    THEN Raised("KeyError", "cable")
    ELSE
      LET devices == <<kwargs["device_a_name"], kwargs["device_z_name"]>>
          ids == IF Sorted(devices) # devices
                 THEN [device_a_name |-> kwargs["device_z_name"],
                       device_z_name |-> kwargs["device_a_name"],
                       interface_a_name |-> kwargs["interface_z_name"],
                       interface_z_name |-> kwargs["interface_a_name"]]
                 ELSE [key \in IdentifierSet("cable") |-> kwargs[key]]
      IN ModelInit("cable", ids, TRUE)

\* an identity made of the last identifier only
IdentityLastOnly(e) == <<e.ids[Identifiers(e.type)[Len(Identifiers(e.type))]]>>

\* the identity tuple of a constructed entity: the values of its _identifiers
Identity(e) == [i \in 1..Len(Identifiers(e.type)) |-> e.ids[Identifiers(e.type)[i]]]

(***************************************************************************)
(* Cable.get_device_intf(side).  A side is a str of one letter or None.    *)
(***************************************************************************)
SideStr(c) == [c |-> c, k |-> "str"]
SideNone == [c |-> "", k |-> "none"]
Sides == {SideStr(c) : c \in {"a", "A", "z", "Z", "x", ""}} \cup {SideNone}

\* str.lower()
Lower(c) ==
    CASE c = "A" -> "a"
      [] c = "Z" -> "z"
      [] c = "X" -> "x"
      [] OTHER -> c

NoValue == [device |-> None, interface |-> None, status |-> "none"]

\* get_device_intf comparing side without lowering it
GetDeviceIntfCaseSensitive(self, sd) ==
    IF sd.k # "str"
    THEN [device |-> None, interface |-> None, status |-> "AttributeError"]
    ELSE IF sd.c = "a"
    THEN [device |-> self.ids["device_a_name"],
          interface |-> self.ids["interface_a_name"], status |-> "ok"]
    ELSE IF sd.c = "z"
    THEN [device |-> self.ids["device_z_name"],
          interface |-> self.ids["interface_z_name"], status |-> "ok"]
    ELSE [device |-> None, interface |-> None, status |-> "ValueError"]

GetDeviceIntfResult(self, sd) ==
    IF sd.k # "str"
    THEN [device |-> None, interface |-> None, status |-> "AttributeError"]
    ELSE IF Lower(sd.c) = "a"
    THEN [device |-> self.ids["device_a_name"],
          interface |-> self.ids["interface_a_name"], status |-> "ok"]
    ELSE IF Lower(sd.c) = "z"
    THEN [device |-> self.ids["device_z_name"],
          interface |-> self.ids["interface_z_name"], status |-> "ok"]
    ELSE [device |-> None, interface |-> None, status |-> "ValueError"]

(***************************************************************************)
(* Vlan.add_device(device_name).                                           *)
(***************************************************************************)
\* device_name in l
Contains(l, v) == \E i \in 1..Len(l) : l[i] = v

\* add_device that appends without the membership test
AddDeviceNoTest(l, device_name) == Sorted(Append(l, device_name))

\* associated_devices after add_device(device_name) ran alone on the list l
AddDevice(l, device_name) ==
    IF ~Contains(l, device_name)
    THEN Sorted(Append(l, device_name))
    ELSE l

\* the device names of the model: one-character strs
DeviceNames == {Str(<<c>>) : c \in 1..NumDevices}

RECURSIVE ListsOfLen(_)
ListsOfLen(n) ==
    IF n = 0 THEN {<< >>}
    ELSE {Append(l, d) : l \in ListsOfLen(n - 1), d \in DeviceNames}

(***************************************************************************)
(* Backend resolution (config.py).  A Settings object is modelled by the   *)
(* three fields resolution reads and writes: main.backend,                 *)
(* inventory.inventory_class and adapters.sot_class, each a str or None.   *)
(***************************************************************************)
\* Python's None as the value of an Optional[str] setting
PyNone == "<None>"

\* `not x` on an Optional[str]
Not(x) == x = PyNone \/ x = ""

DEFAULT_BACKENDS ==
    [nautobot |-> [adapter |-> "network_importer.adapters.nautobot_api.adapter.NautobotAPIAdapter",
                   inventory |-> "NautobotAPIInventory"],
     netbox |-> [adapter |-> "network_importer.adapters.netbox_api.adapter.NetBoxAPIAdapter",
                 inventory |-> "NetBoxAPIInventory"]]

\* what a call ends with: no error, or the exception raised
Returned == [error |-> "none", reason |-> "none"]
Fatal(reason) == [error |-> "ConfigLoadFatalError", reason |-> reason]

\* _configure_backend that overwrites the configured classes
ConfigureBackendOverwrite(settings) ==
    IF Not(settings.backend) /\ (Not(settings.inventory_class) \/ Not(settings.sot_class))
    THEN [end |-> Fatal("IncompleteBackendConfig"), settings |-> settings]
    ELSE IF Not(settings.backend)
    THEN [end |-> Returned, settings |-> settings]
    ELSE IF settings.backend \notin DOMAIN DEFAULT_BACKENDS
    THEN [end |-> Fatal("UnknownBackend"), settings |-> settings]
    ELSE [end |-> Returned,
          settings |-> [backend |-> settings.backend,
                        inventory_class |-> DEFAULT_BACKENDS[settings.backend].inventory,
                        sot_class |-> DEFAULT_BACKENDS[settings.backend].adapter]]

\* _configure_backend that accepts one explicit class without a backend
ConfigureBackendEitherClass(settings) ==
    IF Not(settings.backend) /\ (Not(settings.inventory_class) /\ Not(settings.sot_class))
    THEN [end |-> Fatal("IncompleteBackendConfig"), settings |-> settings]
    ELSE IF Not(settings.backend)
    THEN [end |-> Returned, settings |-> settings]
    ELSE IF settings.backend \notin DOMAIN DEFAULT_BACKENDS
    THEN [end |-> Fatal("UnknownBackend"), settings |-> settings]
    ELSE [end |-> Returned,
          settings |-> [backend |-> settings.backend,
                        inventory_class |->
                            IF Not(settings.inventory_class)
                            THEN DEFAULT_BACKENDS[settings.backend].inventory
                            ELSE settings.inventory_class,
                        sot_class |->
                            IF Not(settings.sot_class)
                            THEN DEFAULT_BACKENDS[settings.backend].adapter
                            ELSE settings.sot_class]]

\* _configure_backend(settings): how the call ends and the settings object
\* as the call leaves it
ConfigureBackend(settings) ==
    IF Not(settings.backend) /\ (Not(settings.inventory_class) \/ Not(settings.sot_class))
    THEN [end |-> Fatal("IncompleteBackendConfig"), settings |-> settings]
    ELSE IF Not(settings.backend)
    THEN [end |-> Returned, settings |-> settings]
    ELSE IF settings.backend \notin DOMAIN DEFAULT_BACKENDS
    THEN [end |-> Fatal("UnknownBackend"), settings |-> settings]
    ELSE [end |-> Returned,
          settings |-> [backend |-> settings.backend,
                        inventory_class |->
                            IF Not(settings.inventory_class)
                            THEN DEFAULT_BACKENDS[settings.backend].inventory
                            ELSE settings.inventory_class,
                        sot_class |->
                            IF Not(settings.sot_class)
                            THEN DEFAULT_BACKENDS[settings.backend].adapter
                            ELSE settings.sot_class]]

\* Settings(): every field at its default
DefaultSettings == [backend |-> PyNone, inventory_class |-> PyNone, sot_class |-> PyNone]

\* main.backend is Optional[Literal["nautobot", "netbox"]]: what pydantic accepts
ValidBackend(b) == b \in {PyNone, "nautobot", "netbox"}

\* the settings a caller or a configuration may hold
BackendValues == {PyNone, "", "netbox", "nautobot", "other"}
InventoryValues == {PyNone, "", "custom.Inventory"}
SotValues == {PyNone, "", "custom.Adapter"}
SettingsValues ==
    {[backend |-> b, inventory_class |-> i, sot_class |-> a] :
        b \in BackendValues, i \in InventoryValues, a \in SotValues}

(***************************************************************************)
(* The graph container of an adapter and its remote-id mapping, as the     *)
(* specification describes them.  An entity in a container is a            *)
(* constructed model together with the value of its attributes.            *)
(***************************************************************************)
\* the key of an entity in a container: its type and identity tuple
Key(e) == <<e.type, Identity(e)>>

\* add(entity): the outcome and the container it leaves
Add(container, e) ==
    IF \E x \in container : Key(x) = Key(e)
    THEN [status |-> "DuplicateIdentity", store |-> container]
    ELSE [status |-> "ok", store |-> container \cup {e}]

\* get(type, identity): the entities of that key
Get(container, key) == {x \in container : Key(x) = key}

\* remap(identity, remote_id) that lets the last remote id win
RemapOverwrite(mapping, key, remote_id) ==
    [status |-> "ok",
     mapping |-> {p \in mapping : p[1] # key} \cup {<<key, remote_id>>}]

\* remap(identity, remote_id): the outcome and the mapping it leaves
Remap(mapping, key, remote_id) ==
    IF \E p \in mapping : p[1] = key /\ p[2] # remote_id
    THEN [status |-> "RemoteIdConflict", mapping |-> mapping]
    ELSE [status |-> "ok", mapping |-> mapping \cup {<<key, remote_id>>}]

\* names of the sites, devices and interfaces of a graph
GraphNames == {Str(<<c>>) : c \in 1..NumNames}

\* values of the attributes of an entity: left at the default, or set
AttrValues == {None, Str(<<1>>)}

\* the entities the fixtures construct: Site, Device and Interface.  Site
\* declares no _attributes, so a site has the one default attribute value.
GraphEntity(t, kw, a) ==
    [attrs |-> a, ids |-> ModelInit(t, kw, FALSE).ids, type |-> t]

GraphEntities ==
    {GraphEntity("site", [name |-> n], None) : n \in GraphNames}
    \cup {GraphEntity("device", [name |-> n], a) :
            n \in GraphNames, a \in AttrValues}
    \cup {GraphEntity("interface", [device_name |-> d, name |-> n], a) :
            d \in GraphNames, n \in GraphNames, a \in AttrValues}

(***************************************************************************)
(* State of the entity-model specification: the last constructor call, the *)
(* entity it produced (or the error it raised) and the last result of      *)
(* get_device_intf on it.                                                  *)
(***************************************************************************)
VARIABLES call, entity, side, ret

mvars == <<call, entity, side, ret>>

(***************************************************************************)
(* State of the Vlan specification: one Vlan, the associated_devices list  *)
(* it was constructed with, its associated_devices attribute and the       *)
(* device names add_device was called with.                                *)
(***************************************************************************)
VARIABLES vlan_init, associated_devices, added, last_call

vvars == <<vlan_init, associated_devices, added, last_call>>

(***************************************************************************)
(* State of the concurrent Vlan specification: worker tasks call           *)
(* add_device on one shared Vlan.  lists holds the list objects alive,     *)
(* attr the list the attribute associated_devices refers to; a worker is   *)
(* at pc[w] in add_device(arg[w]), holds the list it loaded in ref[w] and  *)
(* the list sorted() returned in tmp[w] (0: none).                         *)
(***************************************************************************)
VARIABLES lists, attr, pc, arg, ref, tmp, ncalls, returned

cvars == <<lists, attr, pc, arg, ref, tmp, ncalls, returned>>

(***************************************************************************)
(* State of the configuration specification: the global SETTINGS (the      *)
(* empty sequence while it is None), and of the last call of               *)
(* _configure_backend or load: the operation, the settings it was given,   *)
(* the Settings object as the call left it and how the call ended.         *)
(***************************************************************************)
VARIABLES SETTINGS, op, settings_in, settings, end

bvars == <<SETTINGS, op, settings_in, settings, end>>

(***************************************************************************)
(* State of the graph container specification: the entities one adapter    *)
(* holds, the container before the last operation, and the last            *)
(* operation with its argument, its outcome and what it returned.          *)
(***************************************************************************)
VARIABLES store, store_before, gop

gvars == <<store, store_before, gop>>

(***************************************************************************)
(* State of the remote-id specification: the adapter's associations of an  *)
(* identity with a remote id, the associations before the last remap, the  *)
(* first remote id each identity was remapped to, and the last remap.      *)
(***************************************************************************)
VARIABLES remote_ids, remote_before, first_id, rop

rvars == <<remote_ids, remote_before, first_id, rop>>

vars == <<mvars, vvars, cvars, bvars, gvars, rvars>>

\* keyword arguments a caller may pass for an identifier field
ArgValues(t, f) ==
    {Missing, None} \cup
    (IF Annotation(t, f).typ = "int" THEN {IntV(n) : n \in 1..MaxVid}
     ELSE {Str(s) : s \in Strs(MaxLen)})

NoEntity == [compared |-> FALSE, ids |-> << >>, status |-> "none", type |-> "none"]

\* Initially no entity is constructed; the call is any constructor call a
\* caller may make.
ModelsInit ==
    /\ entity = NoEntity
    /\ side = SideNone
    /\ ret = NoValue
    /\ \E t \in ModelNames :
         CASE t \in {"site", "device"} ->
                \E n \in ArgValues(t, "name") : call = [args |-> [name |-> n], type |-> t]
           [] t = "interface" ->
                \E d \in ArgValues(t, "device_name"), n \in ArgValues(t, "name") :
                   call = [args |-> [device_name |-> d, name |-> n], type |-> t]
           [] t = "ip_address" ->
                \E a \in ArgValues(t, "address"), d \in ArgValues(t, "device_name"),
                   i \in ArgValues(t, "interface_name") :
                   call = [args |-> [address |-> a, device_name |-> d, interface_name |-> i],
                           type |-> t]
           [] t = "prefix" ->
                \E p \in ArgValues(t, "prefix"), n \in ArgValues(t, "site_name") :
                   call = [args |-> [prefix |-> p, site_name |-> n], type |-> t]
           [] t = "cable" ->
                \E da \in ArgValues(t, "device_a_name"), dz \in ArgValues(t, "device_z_name"),
                   ia \in ArgValues(t, "interface_a_name"),
                   iz \in ArgValues(t, "interface_z_name") :
                   call = [args |-> [device_a_name |-> da, device_z_name |-> dz,
                                     interface_a_name |-> ia, interface_z_name |-> iz],
                           type |-> t]
           [] t = "vlan" ->
                \E n \in ArgValues(t, "site_name"), v \in ArgValues(t, "vid") :
                   call = [args |-> [site_name |-> n, vid |-> v], type |-> t]

NewSite ==
    /\ entity = NoEntity
    /\ call.type = "site"
    /\ entity' = ModelInit("site", call.args, FALSE)
    /\ UNCHANGED <<call, side, ret, vvars, cvars, bvars, gvars, rvars>>

NewDevice ==
    /\ entity = NoEntity
    /\ call.type = "device"
    /\ entity' = ModelInit("device", call.args, FALSE)
    /\ UNCHANGED <<call, side, ret, vvars, cvars, bvars, gvars, rvars>>

NewInterface ==
    /\ entity = NoEntity
    /\ call.type = "interface"
    /\ entity' = ModelInit("interface", call.args, FALSE)
    /\ UNCHANGED <<call, side, ret, vvars, cvars, bvars, gvars, rvars>>

NewIPAddress ==
    /\ entity = NoEntity
    /\ call.type = "ip_address"
    /\ entity' = ModelInit("ip_address", call.args, FALSE)
    /\ UNCHANGED <<call, side, ret, vvars, cvars, bvars, gvars, rvars>>

NewPrefix ==
    /\ entity = NoEntity
    /\ call.type = "prefix"
    /\ entity' = ModelInit("prefix", call.args, FALSE)
    /\ UNCHANGED <<call, side, ret, vvars, cvars, bvars, gvars, rvars>>

NewVlan ==
    /\ entity = NoEntity
    /\ call.type = "vlan"
    /\ entity' = ModelInit("vlan", call.args, FALSE)
    /\ UNCHANGED <<call, side, ret, vvars, cvars, bvars, gvars, rvars>>

NewCable ==
    /\ entity = NoEntity
    /\ call.type = "cable"
    /\ entity' = CableInit(call.args)
    /\ UNCHANGED <<call, side, ret, vvars, cvars, bvars, gvars, rvars>>

GetDeviceIntf ==
    /\ entity.status = "ok"
    /\ entity.type = "cable"
    /\ \E sd \in Sides :
         /\ side' = sd
         /\ ret' = GetDeviceIntfResult(entity, sd)
    /\ UNCHANGED <<call, entity, vvars, cvars, bvars, gvars, rvars>>

ModelsNext ==
    \/ NewSite
    \/ NewDevice
    \/ NewInterface
    \/ NewIPAddress
    \/ NewPrefix
    \/ NewVlan
    \/ NewCable
    \/ GetDeviceIntf

ModelsIdle ==
    /\ call = [args |-> << >>, type |-> "none"]
    /\ entity = NoEntity
    /\ side = SideNone
    /\ ret = NoValue

(***************************************************************************)
(* The Vlan, used by one caller at a time.                                 *)
(***************************************************************************)
NoCall == [device_name |-> None, present |-> FALSE]

VlanInit ==
    /\ vlan_init \in UNION {ListsOfLen(n) : n \in 0..MaxInit}
    /\ associated_devices = vlan_init
    /\ added = {}
    /\ last_call = NoCall

VlanIdle ==
    /\ vlan_init = << >>
    /\ associated_devices = << >>
    /\ added = {}
    /\ last_call = NoCall

VlanAddDevice ==
    \E device_name \in DeviceNames :
        /\ device_name \in added \/ Cardinality(added) < MaxAdds
        /\ associated_devices' = AddDevice(associated_devices, device_name)
        /\ added' = added \cup {device_name}
        /\ last_call' = [device_name |-> device_name,
                         present |-> Contains(associated_devices, device_name)]
        /\ UNCHANGED <<vlan_init, mvars, cvars, bvars, gvars, rvars>>

VlanNext == VlanAddDevice

(***************************************************************************)
(* The Vlan, used by worker tasks at once.  A task may be preempted        *)
(* between any two of: loading the attribute, the membership test, the     *)
(* append, sorted() and the assignment to the attribute.                   *)
(***************************************************************************)
Workers == 1..NumWorkers

\* the list objects still referenced, by the attribute or by a worker
Alive(l, a, r, t) ==
    [i \in ({a} \cup {r[w] : w \in Workers} \cup {t[w] : w \in Workers}) \ {0} |-> l[i]]

\* the identity of a newly created list object
NewList(l) == CHOOSE i \in 1..(Cardinality(DOMAIN l) + 1) : i \notin DOMAIN l

ConcInit ==
    /\ lists = [i \in {1} |-> << >>]
    /\ attr = 1
    /\ pc = [w \in Workers |-> "idle"]
    /\ arg = [w \in Workers |-> None]
    /\ ref = [w \in Workers |-> 0]
    /\ tmp = [w \in Workers |-> 0]
    /\ ncalls = [w \in Workers |-> 0]
    /\ returned = {}

ConcIdle ==
    /\ lists = [i \in {1} |-> << >>]
    /\ attr = 1
    /\ pc = [w \in Workers |-> "idle"]
    /\ arg = [w \in Workers |-> None]
    /\ ref = [w \in Workers |-> 0]
    /\ tmp = [w \in Workers |-> 0]
    /\ ncalls = [w \in Workers |-> 0]
    /\ returned = {}

\* a worker calls add_device(device_name)
Call(w) ==
    /\ pc[w] = "idle"
    /\ ncalls[w] < MaxCalls
    /\ \E device_name \in DeviceNames : arg' = [arg EXCEPT ![w] = device_name]
    /\ ncalls' = [ncalls EXCEPT ![w] = @ + 1]
    /\ pc' = [pc EXCEPT ![w] = "load_test"]
    /\ UNCHANGED <<lists, attr, ref, tmp, returned, mvars, vvars, bvars, gvars, rvars>>

\* self.associated_devices is loaded
Load(w) ==
    /\ pc[w] \in {"load_test", "load_append", "load_sort"}
    /\ ref' = [ref EXCEPT ![w] = attr]
    /\ pc' = [pc EXCEPT ![w] = CASE pc[w] = "load_test" -> "test"
                                 [] pc[w] = "load_append" -> "append"
                                 [] pc[w] = "load_sort" -> "sort"]
    /\ UNCHANGED <<lists, attr, arg, tmp, ncalls, returned, mvars, vvars, bvars, gvars, rvars>>

\* if device_name not in <the list loaded>
Test(w) ==
    /\ pc[w] = "test"
    /\ ref' = [ref EXCEPT ![w] = 0]
    /\ lists' = Alive(lists, attr, ref', tmp)
    /\ IF ~Contains(lists[ref[w]], arg[w])
       THEN /\ pc' = [pc EXCEPT ![w] = "load_append"]
            /\ UNCHANGED returned
       ELSE /\ pc' = [pc EXCEPT ![w] = "idle"]
            /\ returned' = returned \cup {arg[w]}
    /\ UNCHANGED <<attr, arg, tmp, ncalls, mvars, vvars, bvars, gvars, rvars>>

\* <the list loaded>.append(device_name)
AppendName(w) ==
    /\ pc[w] = "append"
    /\ ref' = [ref EXCEPT ![w] = 0]
    /\ lists' = Alive([lists EXCEPT ![ref[w]] = Append(@, arg[w])], attr, ref', tmp)
    /\ pc' = [pc EXCEPT ![w] = "load_sort"]
    /\ UNCHANGED <<attr, arg, tmp, ncalls, returned, mvars, vvars, bvars, gvars, rvars>>

\* sorted(<the list loaded>)
SortList(w) ==
    /\ pc[w] = "sort"
    /\ ref' = [ref EXCEPT ![w] = 0]
    /\ tmp' = [tmp EXCEPT ![w] = NewList(lists)]
    /\ lists' = Alive([i \in DOMAIN lists \cup {NewList(lists)} |->
                          IF i \in DOMAIN lists THEN lists[i] ELSE Sorted(lists[ref[w]])],
                      attr, ref', tmp')
    /\ pc' = [pc EXCEPT ![w] = "store"]
    /\ UNCHANGED <<attr, arg, ncalls, returned, mvars, vvars, bvars, gvars, rvars>>

\* self.associated_devices = <the sorted list>, and add_device returns
Store(w) ==
    /\ pc[w] = "store"
    /\ attr' = tmp[w]
    /\ tmp' = [tmp EXCEPT ![w] = 0]
    /\ lists' = Alive(lists, attr', ref, tmp')
    /\ pc' = [pc EXCEPT ![w] = "idle"]
    /\ returned' = returned \cup {arg[w]}
    /\ UNCHANGED <<arg, ref, ncalls, mvars, vvars, bvars, gvars, rvars>>

ConcNext ==
    \E w \in Workers :
        \/ Call(w)
        \/ Load(w)
        \/ Test(w)
        \/ AppendName(w)
        \/ SortList(w)
        \/ Store(w)

(***************************************************************************)
(* The configuration: _configure_backend called on a Settings object, and  *)
(* load().                                                                 *)
(***************************************************************************)
ConfigInit ==
    /\ SETTINGS = << >>
    /\ op = "none"
    /\ settings_in = DefaultSettings
    /\ settings = DefaultSettings
    /\ end = Returned

ConfigIdle ==
    /\ SETTINGS = << >>
    /\ op = "none"
    /\ settings_in = DefaultSettings
    /\ settings = DefaultSettings
    /\ end = Returned

\* _configure_backend(s) called on a Settings object s
ConfigureBackendCall ==
    \E s \in SettingsValues :
        /\ op' = "_configure_backend"
        /\ settings_in' = s
        /\ settings' = ConfigureBackend(s).settings
        /\ end' = ConfigureBackend(s).end
        /\ UNCHANGED <<SETTINGS, mvars, vvars, cvars, gvars, rvars>>

\* SETTINGS = _configure_backend(Settings(**data)): the Settings object, how
\* the statement ends and the global it leaves, old being the global before
LoadSettings(data, old) ==
    IF ~ValidBackend(data.backend)
    THEN [SETTINGS |-> old, end |-> [error |-> "ValidationError", reason |-> "none"],
          settings |-> data]
    ELSE [SETTINGS |-> IF ConfigureBackend(data).end = Returned
                       THEN <<ConfigureBackend(data).settings>>
                       ELSE old,
          end |-> ConfigureBackend(data).end,
          settings |-> ConfigureBackend(data).settings]

\* load(config_data=data) with a non-empty data
LoadConfigData ==
    \E data \in SettingsValues :
        /\ op' = "load(config_data)"
        /\ settings_in' = data
        /\ settings' = LoadSettings(data, SETTINGS).settings
        /\ end' = LoadSettings(data, SETTINGS).end
        /\ SETTINGS' = LoadSettings(data, SETTINGS).SETTINGS
        /\ UNCHANGED <<mvars, vvars, cvars, gvars, rvars>>

\* load() with no config_data (None or empty) and a configuration file
\* that holds data
LoadConfigFile ==
    \E data \in SettingsValues :
        /\ op' = "load(config_file)"
        /\ settings_in' = data
        /\ settings' = LoadSettings(data, SETTINGS).settings
        /\ end' = LoadSettings(data, SETTINGS).end
        /\ SETTINGS' = LoadSettings(data, SETTINGS).SETTINGS
        /\ UNCHANGED <<mvars, vvars, cvars, gvars, rvars>>

\* load() with no config_data and no configuration file
LoadDefaults ==
    /\ op' = "load()"
    /\ settings_in' = DefaultSettings
    /\ settings' = DefaultSettings
    /\ end' = Returned
    /\ SETTINGS' = <<DefaultSettings>>
    /\ UNCHANGED <<mvars, vvars, cvars, gvars, rvars>>

ConfigNext ==
    \/ ConfigureBackendCall
    \/ LoadConfigData
    \/ LoadConfigFile
    \/ LoadDefaults

(***************************************************************************)
(* The graph container: add and get.                                       *)
(***************************************************************************)
NoGraphOp == [arg |-> << >>, found |-> {}, op |-> "none", status |-> "none"]

GraphInit ==
    /\ store = {}
    /\ store_before = {}
    /\ gop = NoGraphOp

GraphIdle ==
    /\ store = {}
    /\ store_before = {}
    /\ gop = NoGraphOp

GraphAdd ==
    \E e \in GraphEntities :
        LET r == Add(store, e) IN
        /\ Cardinality(store) < MaxStore \/ r.status # "ok"
        /\ store' = r.store
        /\ store_before' = store
        /\ gop' = [arg |-> e, found |-> {}, op |-> "add", status |-> r.status]
        /\ UNCHANGED <<mvars, vvars, cvars, bvars, rvars>>

GraphGet ==
    \E e \in GraphEntities :
        LET found == Get(store, Key(e)) IN
        /\ e.attrs = None
        /\ store_before' = store
        /\ gop' = [arg |-> e, found |-> found, op |-> "get",
                   status |-> IF found = {} THEN "NotFound" ELSE "ok"]
        /\ UNCHANGED <<store, mvars, vvars, cvars, bvars, rvars>>

GraphNext ==
    \/ GraphAdd
    \/ GraphGet

(***************************************************************************)
(* The remote-id mapping: remap.                                           *)
(***************************************************************************)
\* the identities that are remapped: the keys of the sites and devices
RemapKeys == {Key(e) : e \in {x \in GraphEntities : x.type \in {"site", "device"}}}

RemoteIds == 1..MaxRemoteId

NoRemap == [key |-> << >>, remote_id |-> 0, status |-> "none"]

RemapInit ==
    /\ remote_ids = {}
    /\ remote_before = {}
    /\ first_id = {}
    /\ rop = NoRemap

RemapIdle ==
    /\ remote_ids = {}
    /\ remote_before = {}
    /\ first_id = {}
    /\ rop = NoRemap

RemapCall ==
    \E key \in RemapKeys, remote_id \in RemoteIds :
        /\ remote_ids' = Remap(remote_ids, key, remote_id).mapping
        /\ remote_before' = remote_ids
        /\ first_id' = IF \E p \in first_id : p[1] = key
                       THEN first_id
                       ELSE first_id \cup {<<key, remote_id>>}
        /\ rop' = [key |-> key, remote_id |-> remote_id,
                   status |-> Remap(remote_ids, key, remote_id).status]
        /\ UNCHANGED <<mvars, vvars, cvars, bvars, gvars>>

RemapNext == RemapCall

(***************************************************************************)
(* The specifications.                                                     *)
(***************************************************************************)
Init == ModelsInit /\ VlanIdle /\ ConcIdle /\ ConfigIdle /\ GraphIdle /\ RemapIdle

Spec == Init /\ [][ModelsNext]_vars

InitVlan == VlanInit /\ ModelsIdle /\ ConcIdle /\ ConfigIdle /\ GraphIdle /\ RemapIdle

SpecVlan == InitVlan /\ [][VlanNext]_vars

InitVlanConc == ConcInit /\ ModelsIdle /\ VlanIdle /\ ConfigIdle /\ GraphIdle /\ RemapIdle

SpecVlanConc == InitVlanConc /\ [][ConcNext]_vars

InitConfig == ConfigInit /\ ModelsIdle /\ VlanIdle /\ ConcIdle /\ GraphIdle /\ RemapIdle

SpecConfig == InitConfig /\ [][ConfigNext]_vars

InitGraph == GraphInit /\ ModelsIdle /\ VlanIdle /\ ConcIdle /\ ConfigIdle /\ RemapIdle

SpecGraph == InitGraph /\ [][GraphNext]_vars

InitRemap == RemapInit /\ ModelsIdle /\ VlanIdle /\ ConcIdle /\ ConfigIdle /\ GraphIdle

SpecRemap == InitRemap /\ [][RemapNext]_vars

(***************************************************************************)
(* Claims about the entity models.                                         *)
(***************************************************************************)
\* the keyword arguments with the two endpoints exchanged
SwapEndpoints(kw) ==
    [device_a_name |-> kw["device_z_name"],
     device_z_name |-> kw["device_a_name"],
     interface_a_name |-> kw["interface_z_name"],
     interface_z_name |-> kw["interface_a_name"]]

NonEmptyStr(v) == v.k = "str" /\ v.s # << >>

CableBuilt == call.type = "cable" /\ entity # NoEntity

\* C1: for all valid (device_a, interface_a, device_z, interface_z), also with
\* equal device names, the Cable constructed from the swapped endpoints has
\* the same identity tuple as the Cable constructed from the unswapped ones.
C1_SwapSameIdentity ==
    (CableBuilt /\ \A f \in IdentifierSet("cable") : NonEmptyStr(call.args[f]))
        => /\ entity.status = "ok"
           /\ CableInit(SwapEndpoints(call.args)).status = "ok"
           /\ Identity(CableInit(SwapEndpoints(call.args))) = Identity(entity)

\* a device name that is missing, None or empty
NoDeviceName(v) == v = Missing \/ v = None \/ v = Str(<< >>)

\* C2: constructing a Cable whose device_a_name or device_z_name is missing,
\* None or empty raises ValueError before the endpoints are compared, and no
\* Cable is produced.
C2_EmptyDeviceRaises ==
    (CableBuilt /\ (\/ NoDeviceName(call.args["device_a_name"])
                    \/ NoDeviceName(call.args["device_z_name"])))
        => /\ entity.status = "ValueError"
           /\ ~entity.compared

C2_Witness ==
    /\ CableBuilt
    /\ call.args["device_a_name"] = Str(<< >>)
    /\ NonEmptyStr(call.args["device_z_name"])
    /\ NonEmptyStr(call.args["interface_a_name"])
    /\ NonEmptyStr(call.args["interface_z_name"])
    /\ entity.status = "ValueError"

\* C3: no constructed entity of any type has an identity tuple with an empty
\* or absent component.
C3_NoEmptyIdentity ==
    entity.status = "ok"
        => \A i \in 1..Len(Identifiers(entity.type)) :
              /\ Identity(entity)[i] # None
              /\ Identity(entity)[i] # Str(<< >>)

\* the endpoint pair get_device_intf answers with
Pair(d, i) == [device |-> d, interface |-> i, status |-> "ok"]

IntfCalled == ret # NoValue

StoredA == <<entity.ids["device_a_name"], entity.ids["interface_a_name"]>>
StoredZ == <<entity.ids["device_z_name"], entity.ids["interface_z_name"]>>
CallerA == <<call.args["device_a_name"], call.args["interface_a_name"]>>
CallerZ == <<call.args["device_z_name"], call.args["interface_z_name"]>>

CableOk == CableBuilt /\ entity.status = "ok"

\* C11: every successfully constructed Cable has device_a_name <=
\* device_z_name, and its two stored endpoints are the caller's two
\* (device, interface) endpoints, kept or exchanged as whole tuples.
C11_EndpointsOrderedWhole ==
    CableOk
        => /\ ~Less(entity.ids["device_z_name"], entity.ids["device_a_name"])
           /\ \/ StoredA = CallerA /\ StoredZ = CallerZ
              \/ StoredA = CallerZ /\ StoredZ = CallerA

C11_Witness ==
    /\ CableOk
    /\ Less(call.args["device_z_name"], call.args["device_a_name"])
    /\ call.args["interface_a_name"] # call.args["interface_z_name"]
    /\ StoredA = CallerZ
    /\ StoredZ = CallerA

\* C12: a Cable constructed with device_a_name equal to device_z_name (and
\* non-empty interface names) stores its interface names in order:
\* interface_a_name <= interface_z_name.
C12_EqualDevicesInterfacesOrdered ==
    (/\ CableOk
     /\ call.args["device_a_name"] = call.args["device_z_name"]
     /\ NonEmptyStr(call.args["interface_a_name"])
     /\ NonEmptyStr(call.args["interface_z_name"]))
        => ~Less(entity.ids["interface_z_name"], entity.ids["interface_a_name"])

(***************************************************************************)
(* Claims about Vlan.add_device.                                           *)
(***************************************************************************)
\* l is in ascending order with no entry twice
StrictlyAscending(l) == \A i \in 1..(Len(l) - 1) : Less(l[i], l[i + 1])

Elements(l) == {l[i] : i \in 1..Len(l)}

\* C4: starting from empty membership, after any sequence of add_device
\* calls associated_devices is the ascending list of the distinct names
\* added: a name added twice is there once, and the order of the calls does
\* not matter.
C4_AddDeviceSortedDistinct ==
    vlan_init = << >>
        => /\ StrictlyAscending(associated_devices)
           /\ Elements(associated_devices) = added
           /\ Len(associated_devices) = Cardinality(added)

C4_Witness ==
    /\ vlan_init = << >>
    /\ Cardinality(added) = MaxAdds
    /\ Len(associated_devices) = MaxAdds
    /\ last_call.present

\* C13: a Vlan constructed with any initial associated_devices list keeps
\* associated_devices in ascending order with no duplicate entry; stated
\* here for the states after at least one add_device call.
C13_AssociatedDevicesAlwaysSorted ==
    last_call # NoCall => StrictlyAscending(associated_devices)

\* every add_device call made has returned
AllReturned == \A w \in Workers : pc[w] = "idle"

\* C7: under concurrent add_device calls on one Vlan, once all calls have
\* returned associated_devices holds every added name exactly once, in
\* ascending order.
C7_ConcurrentAddDeviceSafe ==
    AllReturned
        => /\ StrictlyAscending(lists[attr])
           /\ Elements(lists[attr]) = returned

(***************************************************************************)
(* Claims about backend resolution.                                        *)
(***************************************************************************)
\* _configure_backend ran: called directly, or by load on validated settings
Resolved == op \in {"_configure_backend", "load(config_data)", "load(config_file)"}
            /\ end.error # "ValidationError"

\* a class was configured explicitly
Explicit(x) == x # PyNone /\ x # ""

\* C5: for the backends netbox and nautobot, resolution leaves each of
\* inventory_class and sot_class at its explicitly configured value when one
\* was set and at the backend's default otherwise.
C5_ResolutionFillsGaps ==
    (Resolved /\ settings_in.backend \in {"netbox", "nautobot"})
        => /\ end = Returned
           /\ settings.backend = settings_in.backend
           /\ settings.inventory_class =
                 IF Explicit(settings_in.inventory_class)
                 THEN settings_in.inventory_class
                 ELSE IF settings_in.backend = "netbox" THEN "NetBoxAPIInventory"
                 ELSE "NautobotAPIInventory"
           /\ settings.sot_class =
                 IF Explicit(settings_in.sot_class)
                 THEN settings_in.sot_class
                 ELSE IF settings_in.backend = "netbox"
                      THEN "network_importer.adapters.netbox_api.adapter.NetBoxAPIAdapter"
                      ELSE "network_importer.adapters.nautobot_api.adapter.NautobotAPIAdapter"

C5_Witness ==
    /\ op = "_configure_backend"
    /\ settings_in = [backend |-> "nautobot", inventory_class |-> "custom.Inventory",
                      sot_class |-> PyNone]
    /\ settings = [backend |-> "nautobot", inventory_class |-> "custom.Inventory",
                   sot_class |-> "network_importer.adapters.nautobot_api.adapter.NautobotAPIAdapter"]

\* C6: with no backend name, resolution succeeds only if both classes are
\* explicitly configured, and then returns the settings unchanged; otherwise
\* it fails with ConfigLoadFatalError and modifies nothing.
C6_NoBackendNeedsBothClasses ==
    (Resolved /\ ~Explicit(settings_in.backend))
        => /\ settings = settings_in
           /\ IF Explicit(settings_in.inventory_class) /\ Explicit(settings_in.sot_class)
              THEN end = Returned
              ELSE end = Fatal("IncompleteBackendConfig")

C6_Witness ==
    /\ op = "_configure_backend"
    /\ settings_in = [backend |-> PyNone, inventory_class |-> "custom.Inventory",
                      sot_class |-> PyNone]
    /\ end = Fatal("IncompleteBackendConfig")
    /\ settings = settings_in

\* load ran and returned without an error
Loaded == op \in {"load(config_data)", "load(config_file)", "load()"} /\ end = Returned

\* C14: every call of load() that completes without an error, on any of its
\* three input paths, leaves SETTINGS with inventory_class and sot_class both
\* set, and never settings that backend resolution rejects.
C14_LoadLeavesResolved ==
    Loaded
        => /\ SETTINGS # << >>
           /\ Explicit(SETTINGS[1].inventory_class)
           /\ Explicit(SETTINGS[1].sot_class)
           /\ ConfigureBackend(SETTINGS[1]).end = Returned

(***************************************************************************)
(* Claims about the graph container and the remote-id mapping.             *)
(***************************************************************************)
\* two entities of the same type with the same identity tuple
SameIdentity(x, y) == x.type = y.type /\ x.ids = y.ids

\* C9: add fails with DuplicateIdentity when an entity of the same type and
\* identity is stored, and leaves the container unchanged; the container
\* holds at most one entity per (type, identity); an entity added with a
\* distinct identity is stored and get returns it.
C9_AddRejectsDuplicates ==
    /\ \A x \in store : \A y \in store : SameIdentity(x, y) => x = y
    /\ gop.op = "add" =>
          IF \E x \in store_before : SameIdentity(x, gop.arg)
          THEN gop.status = "DuplicateIdentity" /\ store = store_before
          ELSE gop.status = "ok" /\ store = store_before \cup {gop.arg}
    /\ gop.op = "get" =>
          /\ gop.found = {x \in store : SameIdentity(x, gop.arg)}
          /\ gop.status = IF gop.found = {} THEN "NotFound" ELSE "ok"

C9_Witness ==
    /\ gop.op = "add"
    /\ gop.status = "DuplicateIdentity"
    /\ gop.arg.type = "interface"
    /\ Cardinality(store) = MaxStore
    /\ gop.arg \notin store

\* C10: remapping an identity with the remote id stored for it changes
\* nothing; remapping it with another remote id fails with RemoteIdConflict
\* and leaves the mapping unchanged; each identity maps to at most one remote
\* id, the first one assigned.
C10_RemapFirstIdWins ==
    /\ remote_ids = first_id
    /\ \A p \in remote_ids : \A q \in remote_ids : p[1] = q[1] => p[2] = q[2]
    /\ rop.status # "none" =>
          IF \E p \in remote_before : p[1] = rop.key /\ p[2] # rop.remote_id
          THEN rop.status = "RemoteIdConflict" /\ remote_ids = remote_before
          ELSE /\ rop.status = "ok"
               /\ remote_ids = remote_before \cup {<<rop.key, rop.remote_id>>}

C10_Witness ==
    /\ rop.status = "RemoteIdConflict"
    /\ \E p \in remote_ids : p[1] = rop.key /\ p[2] # rop.remote_id
    /\ Cardinality(remote_ids) >= 2

=============================================================================
